---- MODULE Spec2Model ----
(***************************************************************************)
(* Model of cleanup (src/src/main.rs): a parallel walker that moves old    *)
(* files of a source tree to dest/<uid>/<n>, with the per-owner sequence   *)
(* counters and the provenance maps kept in a sled database dest/paths.db. *)
(*                                                                         *)
(* A path is a pair: <<0, f>> is the original path of file f under the     *)
(* source root, <<u, n>> with u an owner id is dest/<u>/<n>.  The ledger   *)
(* has an in-process image (mem_uid, mem_paths) and the image on disk      *)
(* (disk_uid, disk_paths): writes                                          *)
(* reach the disk at a flush, either the one main() ends with or one of    *)
(* the database's periodic ones.                                           *)
(***************************************************************************)
EXTENDS Integers, Sequences, FiniteSets, TLC

\* ---------------------------------------------------------------- bounds
MaxUid == 2
NumFiles == 2
NumWorkers == 2
MaxRuns == 2
MaxFail == 1
MaxTime == 2
MaxPathLen == 5
MaxLines == 2
NumPieces == 5

\* ------------------------------------------------------ program constants
Mode700 == 448
RunnerUid == 0

Uids == 1..MaxUid
Files == 1..NumFiles
Workers == 1..NumWorkers
Times == 0..MaxTime

\* st_atime / st_mtime / st_ctime of a file: even files were modified late
FileMeta(f) ==
  [atime |-> 0, mtime |-> IF f % 2 = 0 THEN MaxTime ELSE 0, ctime |-> 0]

SrcPath(f) == <<0, f>>
\* the entry of the source root itself, a directory
RootDir == 0
Lost == <<-1, -1>>
Header == <<-2, -2>>
IsSrc(p) == p[1] = 0
IsDest(p) == p[1] \in Uids

\* the command lines a run is started with (dry_run is drawn separately)
RunFlags ==
  { [noatime |-> FALSE, nomtime |-> FALSE, noctime |-> FALSE],
    [noatime |-> FALSE, nomtime |-> TRUE,  noctime |-> FALSE] }
RunCutoffs == {1}

\* names of the destination directory, when it is a child of the source root
DestNames == { <<"q">>, <<"[", "q", "]">> }

NoCtx ==
  [dry_run |-> FALSE, noatime |-> FALSE, nomtime |-> FALSE, noctime |-> FALSE,
   cutoff |-> 0]
EmptyFn == [x \in {} |-> 0]

VARIABLES
  main_pc,     \* "off" (no process), "walk", "export", "flush", "exit"
  ret,         \* how main() is ending: "none", "ok", "err", "panic", "killed"
  ctx,         \* CleanContext of the running process
  dest_rel,    \* ctx.dest relative to ctx.path, as characters; empty when
               \* the destination root is not inside the source root
  owner,       \* file -> st_uid (meta.uid()); a rename keeps it
  run,         \* number of processes started so far
  wk,          \* entry in a worker's hands -> [pc, n, path]: the position in
               \* process_file, the number it got, the path it was yielded at
  visited,     \* entries the walker has yielded in this run
  loc,         \* file -> its current path (or Lost once overwritten)
  bucket,      \* uid -> [mode, owner] of directory dest/<uid>, if it exists
  mapjson,     \* uid -> [owner, content] of dest/<uid>/map.json, if it exists
  mem_uid,     \* tree "cleanup_uids" as the process sees it
  mem_paths,   \* provenance trees as the process sees them
  disk_uid,    \* tree "cleanup_uids" on disk
  disk_paths,  \* provenance trees on disk
  stdout,      \* lines written to standard output by this run
  errlog,      \* errors this run printed to standard error: [f, at], the
               \* entry and the step of process_file that failed
  seqlog,      \* history: the values the sequence step returned, with the
               \* run and the entry they were returned for
  renames,     \* history: the successful renames
  exported,    \* tree names the export loop has gone through
  walked,      \* this run's walk_dir.run() returned
  flushed,     \* this run executed ctx.paths_db.flush()
  fails,       \* number of injected operating-system failures so far
  age_in,      \* input of the age predicate (specification SpecAge)
  age_out,     \* its result
  esc_in,      \* bytes of the path given to escape_path (SpecCodec)
  esc_out,     \* the String it returned, as character codes; <<>> before
  lock_holder, \* thread holding the lock of standard output, 0 if free
               \* (SpecOut)
  term,        \* what standard output received, piece by piece (SpecOut)
  wr           \* thread -> [line, piece]: the line it is at and the pieces
               \* of it written so far (SpecOut)

vars == <<main_pc, ret, ctx, dest_rel, owner, run, wk, visited, loc, bucket, mapjson,
          mem_uid, mem_paths, disk_uid, disk_paths, stdout, errlog, seqlog,
          renames, exported, walked, flushed, fails, age_in, age_out,
          esc_in, esc_out, lock_holder, term, wr>>

fsvars == <<loc, bucket, mapjson>>
memvars == <<mem_uid, mem_paths>>
diskvars == <<disk_uid, disk_paths>>
agevars == <<age_in, age_out>>
codecvars == <<esc_in, esc_out>>
outvars == <<lock_holder, term, wr>>
auxvars == <<agevars, codecvars, outvars>>
histvars == <<seqlog, renames>>
mainvars == <<main_pc, ret, ctx, dest_rel, owner, run, wk, visited, fsvars,
              memvars, diskvars, stdout, errlog, histvars, exported, walked,
              flushed, fails>>

\* --------------------------------------------------------- pure functions

\* process_file, lines 151-163: AND over the enabled fields, strict <
Old_NotStrict(meta, c) ==
  /\ (~c.noatime => meta.atime <= c.cutoff)
  /\ (~c.nomtime => meta.mtime <= c.cutoff)
  /\ (~c.noctime => meta.ctime <= c.cutoff)

Old(meta, c) ==
  /\ (~c.noatime => meta.atime < c.cutoff)
  /\ (~c.nomtime => meta.mtime < c.cutoff)
  /\ (~c.noctime => meta.ctime < c.cutoff)

\* the closure given to update_and_fetch, lines 167-176.  The counter is a
\* u32; a run assigns at most NumFiles numbers, so within MaxRuns runs it
\* stays far below 2^32 and number + 1 does not overflow
NextNumber(tree, uid) ==
  IF uid \in DOMAIN tree THEN tree[uid] + 1 ELSE 0

\* sled Tree::insert / update: point update of a map
Put(tree, k, v) ==
  [x \in (DOMAIN tree) \cup {k} |-> IF x = k THEN v ELSE tree[x]]

\* main, line 272: ctx.dest.starts_with(&ctx.path)
nested == dest_rel # <<>>

\* main, lines 273-281: the glob handed to overrides.add
OverrideGlob(rel) == <<"!", "/">> \o rel \o <<"/">>

\* globset, as the override matcher uses it: a character stands for itself
\* and [...] for one character of the class
RECURSIVE GlobMatch(_, _)
GlobMatch(pat, name) ==
  IF pat = <<>> THEN name = <<>>
  ELSE IF Head(pat) = "["
    THEN LET close == CHOOSE j \in 3..Len(pat) :
                        pat[j] = "]" /\ \A k \in 3..(j - 1) : pat[k] # "]"
             class == {pat[k] : k \in 2..(close - 1)}
         IN /\ name # <<>>
            /\ Head(name) \in class
            /\ GlobMatch(SubSeq(pat, close + 1, Len(pat)), Tail(name))
    ELSE /\ name # <<>>
         /\ Head(name) = Head(pat)
         /\ GlobMatch(Tail(pat), Tail(name))

\* ignore::overrides: a glob "!/<g>/" makes the walker skip the directory
\* whose path relative to the root matches <g>
Ignored(glob, reldir) ==
  /\ Len(glob) > 3
  /\ glob[1] = "!" /\ glob[2] = "/" /\ glob[Len(glob)] = "/"
  /\ GlobMatch(SubSeq(glob, 3, Len(glob) - 1), reldir)

\* main, lines 272-283: the destination directory is skipped by the walker
DestPruned == nested /\ Ignored(OverrideGlob(dest_rel), dest_rel)

\* entries the walker can still yield: the regular files under the source
\* root, and those under the destination when it is inside and not pruned
Tree ==
  {f \in Files : IsSrc(loc[f])}
    \cup (IF nested /\ ~DestPruned THEN {f \in Files : IsDest(loc[f])} ELSE {})

Count(s, x) == Cardinality({i \in 1..Len(s) : s[i] = x})

\* ------------------------------------------------------------------ Init

\* the variables of the specifications of one function, before it is applied
AgeRest ==
  /\ age_in = [noatime |-> FALSE, nomtime |-> FALSE, noctime |-> FALSE,
               atime |-> 0, mtime |-> 0, ctime |-> 0, cutoff |-> 0]
  /\ age_out = "none"
CodecRest ==
  /\ esc_in = <<>>
  /\ esc_out = <<>>
OutRest ==
  /\ lock_holder = 0
  /\ term = <<>>
  /\ wr = [w \in Workers |-> [line |-> 0, piece |-> 0]]

Init ==
  /\ main_pc = "off"
  /\ ret = "none"
  /\ ctx = NoCtx
  /\ dest_rel \in {<<>>} \cup DestNames
  /\ owner \in {o \in [Files -> Uids] : o[1] = 1}
  /\ run = 0
  /\ wk = EmptyFn
  /\ visited = {}
  /\ loc = [f \in Files |-> SrcPath(f)]
  /\ bucket = EmptyFn
  /\ mapjson = EmptyFn
  /\ mem_uid = EmptyFn
  /\ mem_paths = EmptyFn
  /\ disk_uid = EmptyFn
  /\ disk_paths = EmptyFn
  /\ stdout = <<>>
  /\ errlog = {}
  /\ seqlog = {}
  /\ renames = {}
  /\ exported = {}
  /\ walked = FALSE
  /\ flushed = FALSE
  /\ fails = 0
  /\ AgeRest
  /\ CodecRest
  /\ OutRest

\* ------------------------------------------------------- main: the setup

\* main, lines 220-286: the paths resolve, the database opens, the walker is
\* built and the header line is printed
StartRun(dry, fl, cut) ==
  /\ main_pc = "off"
  /\ run < MaxRuns
  /\ main_pc' = "walk"
  /\ ret' = "none"
  /\ ctx' = [dry_run |-> dry, noatime |-> fl.noatime, nomtime |-> fl.nomtime,
             noctime |-> fl.noctime, cutoff |-> cut]
  /\ run' = run + 1
  /\ mem_uid' = disk_uid
  /\ mem_paths' = disk_paths
  /\ stdout' = <<Header>>
  /\ UNCHANGED <<dest_rel, owner, wk, visited, errlog, exported, walked, flushed,
                 fsvars, diskvars, histvars, fails, auxvars>>

\* main, lines 222-283: one of the ? of the setup returns the error
SetupFail_HeaderFirst ==
  /\ main_pc = "off"
  /\ run < MaxRuns
  /\ fails < MaxFail
  /\ fails' = fails + 1
  /\ run' = run + 1
  /\ ret' = "err"
  /\ stdout' = <<Header>>
  /\ UNCHANGED <<main_pc, ctx, dest_rel, owner, wk, visited, errlog, exported,
                 walked, flushed, fsvars, memvars, diskvars, histvars, auxvars>>

SetupFail ==
  /\ main_pc = "off"
  /\ run < MaxRuns
  /\ fails < MaxFail
  /\ fails' = fails + 1
  /\ run' = run + 1
  /\ ret' = "err"
  /\ UNCHANGED <<main_pc, ctx, dest_rel, owner, wk, visited, stdout, errlog, exported,
                 walked, flushed, fsvars, memvars, diskvars, histvars, auxvars>>

\* ------------------------------------------- process_ent and process_file

Forget(f) == [g \in (DOMAIN wk) \ {f} |-> wk[g]]
Hold(f, r) == [g \in (DOMAIN wk) \cup {f} |-> IF g = f THEN r ELSE wk[g]]
At(f, pc) == f \in DOMAIN wk /\ wk[f].pc = pc

\* process_ent, line 132: the entry is not a regular file, nothing is called
\* for it.  The walker yields the source root, a directory, before what is
\* in it
NotFile ==
  /\ main_pc = "walk"
  /\ RootDir \notin visited
  /\ visited' = visited \cup {RootDir}
  /\ UNCHANGED <<main_pc, ret, ctx, dest_rel, owner, run, wk, fsvars, memvars,
                 diskvars, stdout, errlog, histvars, exported, walked,
                 flushed, fails, auxvars>>

\* a worker is free and the walker yields it the regular file f
Yield(f) ==
  /\ main_pc = "walk"
  /\ RootDir \in visited
  /\ Cardinality(DOMAIN wk) < NumWorkers
  /\ f \in Tree \ visited
  /\ visited' = visited \cup {f}

\* process_ent, lines 130-139 and process_file, line 150: the metadata of a
\* yielded regular file cannot be read; the error is printed
StatErr(f) ==
  /\ Yield(f)
  /\ fails < MaxFail
  /\ fails' = fails + 1
  /\ errlog' = errlog \cup {[f |-> f, at |-> "stat"]}
  /\ UNCHANGED <<main_pc, ret, ctx, dest_rel, owner, run, wk, fsvars, memvars,
                 diskvars, stdout, histvars, exported, walked, flushed,
                 auxvars>>

\* process_file, lines 150-163: the file is not old, return Ok(())
NotOld_AfterSequence(f) ==
  /\ Yield(f)
  /\ ~Old(FileMeta(f), ctx)
  /\ mem_uid' = Put(mem_uid, owner[f], NextNumber(mem_uid, owner[f]))
  /\ UNCHANGED <<main_pc, ret, ctx, dest_rel, owner, run, wk, fsvars, mem_paths,
                 diskvars, stdout, errlog, histvars, exported, walked,
                 flushed, fails, auxvars>>

NotOld(f) ==
  /\ Yield(f)
  /\ ~Old(FileMeta(f), ctx)
  /\ UNCHANGED <<main_pc, ret, ctx, dest_rel, owner, run, wk, fsvars, memvars,
                 diskvars, stdout, errlog, histvars, exported, walked,
                 flushed, fails, auxvars>>

\* process_file, lines 150-182: the file is old; update_and_fetch on the
\* owner's counter returns its number
SeqAssign_OneCounter(f) ==
  /\ Yield(f)
  /\ Old(FileMeta(f), ctx)
  /\ LET uid == owner[f]
         n == NextNumber(mem_uid, uid)
     IN /\ mem_uid' = [u \in (DOMAIN mem_uid) \cup {uid} |-> n]
        /\ seqlog' = seqlog \cup {[uid |-> uid, n |-> n, f |-> f, run |-> run]}
        /\ wk' = Hold(f, [pc |-> "bucket", n |-> n, path |-> loc[f]])
  /\ UNCHANGED <<main_pc, ret, ctx, dest_rel, owner, run, fsvars, mem_paths,
                 diskvars, stdout, errlog, renames, exported, walked, flushed,
                 fails, auxvars>>

SeqAssign(f) ==
  /\ Yield(f)
  /\ Old(FileMeta(f), ctx)
  /\ LET uid == owner[f]
         n == NextNumber(mem_uid, uid)
     IN /\ mem_uid' = Put(mem_uid, uid, n)
        /\ seqlog' = seqlog \cup {[uid |-> uid, n |-> n, f |-> f, run |-> run]}
        /\ wk' = Hold(f, [pc |-> "bucket", n |-> n, path |-> loc[f]])
  /\ UNCHANGED <<main_pc, ret, ctx, dest_rel, owner, run, fsvars, mem_paths,
                 diskvars, stdout, errlog, renames, exported, walked, flushed,
                 fails, auxvars>>

\* process_file, lines 150-177: the file is old; update_and_fetch returns an
\* error and the unwrap panics; the panic of a worker ends the process
SeqPanic(f) ==
  /\ Yield(f)
  /\ Old(FileMeta(f), ctx)
  /\ fails < MaxFail
  /\ fails' = fails + 1
  /\ main_pc' = "exit"
  /\ ret' = "panic"
  /\ UNCHANGED <<ctx, dest_rel, owner, run, wk, fsvars, memvars, diskvars,
                 stdout, errlog, histvars, exported, walked, flushed, auxvars>>

\* process_file, lines 183-184: udest.is_dir() and the dry_run test
BucketCheck_NoDryRunTest(f) ==
  /\ main_pc = "walk"
  /\ At(f, "bucket")
  /\ wk' = [wk EXCEPT ![f].pc = IF owner[f] \notin DOMAIN bucket
                                THEN "mkdir" ELSE "audit"]
  /\ UNCHANGED <<main_pc, ret, ctx, dest_rel, owner, run, visited, fsvars, memvars,
                 diskvars, stdout, errlog, histvars, exported, walked, flushed,
                 fails, auxvars>>

BucketCheck(f) ==
  /\ main_pc = "walk"
  /\ At(f, "bucket")
  /\ wk' = [wk EXCEPT ![f].pc = IF owner[f] \notin DOMAIN bucket /\ ~ctx.dry_run
                                THEN "mkdir" ELSE "audit"]
  /\ UNCHANGED <<main_pc, ret, ctx, dest_rel, owner, run, visited, fsvars, memvars,
                 diskvars, stdout, errlog, histvars, exported, walked, flushed,
                 fails, auxvars>>

\* process_file, lines 185-188: recursive create, mode 0700; an existing
\* directory is left as it is
Mkdir(f) ==
  /\ main_pc = "walk"
  /\ At(f, "mkdir")
  /\ LET uid == owner[f]
     IN bucket' = IF uid \in DOMAIN bucket THEN bucket
                  ELSE Put(bucket, uid, [mode |-> Mode700, owner |-> RunnerUid])
  /\ wk' = [wk EXCEPT ![f].pc = "chown"]
  /\ UNCHANGED <<main_pc, ret, ctx, dest_rel, owner, run, visited, loc, mapjson, memvars,
                 diskvars, stdout, errlog, histvars, exported, walked, flushed,
                 fails, auxvars>>

\* process_file, line 189: lchown(udest, uid)
Chown(f) ==
  /\ main_pc = "walk"
  /\ At(f, "chown")
  /\ bucket' = [bucket EXCEPT ![owner[f]].owner = owner[f]]
  /\ wk' = [wk EXCEPT ![f].pc = "audit"]
  /\ UNCHANGED <<main_pc, ret, ctx, dest_rel, owner, run, visited, loc, mapjson, memvars,
                 diskvars, stdout, errlog, histvars, exported, walked, flushed,
                 fails, auxvars>>

\* process_file, lines 191-210: one line, written under the stdout lock
Audit(f) ==
  /\ main_pc = "walk"
  /\ At(f, "audit")
  /\ stdout' = Append(stdout, wk[f].path)
  /\ wk' = [wk EXCEPT ![f].pc = "open"]
  /\ UNCHANGED <<main_pc, ret, ctx, dest_rel, owner, run, visited, fsvars, memvars,
                 diskvars, errlog, histvars, exported, walked, flushed, fails,
                 auxvars>>

\* process_file, lines 211-212: open_tree creates the owner's tree when it is
\* missing; then the dry_run test
OpenTree(f) ==
  /\ main_pc = "walk"
  /\ At(f, "open")
  /\ LET uid == owner[f]
     IN mem_paths' = IF uid \in DOMAIN mem_paths THEN mem_paths
                     ELSE Put(mem_paths, uid, EmptyFn)
  /\ wk' = [wk EXCEPT ![f].pc = IF ctx.dry_run THEN "insert" ELSE "rename"]
  /\ UNCHANGED <<main_pc, ret, ctx, dest_rel, owner, run, visited, fsvars, mem_uid,
                 diskvars, stdout, errlog, histvars, exported, walked, flushed,
                 fails, auxvars>>

\* process_file, line 213: rename(fpath, fdest) replaces what is at fdest
Rename(f) ==
  /\ main_pc = "walk"
  /\ At(f, "rename")
  /\ loc[f] = wk[f].path
  /\ LET fdest == <<owner[f], wk[f].n>>
     IN /\ loc' = [g \in Files |-> IF g = f THEN fdest
                                   ELSE IF loc[g] = fdest THEN Lost ELSE loc[g]]
        /\ renames' = renames \cup
                        {[f |-> f, from |-> wk[f].path, to |-> fdest, run |-> run]}
  /\ wk' = [wk EXCEPT ![f].pc = "insert"]
  /\ UNCHANGED <<main_pc, ret, ctx, dest_rel, owner, run, visited, bucket, mapjson,
                 memvars, diskvars, stdout, errlog, seqlog, exported, walked,
                 flushed, fails, auxvars>>

\* process_file, lines 215-216: path_map.insert(escape_path(fdest), epath)
Insert(f) ==
  /\ main_pc = "walk"
  /\ At(f, "insert")
  /\ LET uid == owner[f]
     IN mem_paths' = [mem_paths EXCEPT
                        ![uid] = Put(@, <<uid, wk[f].n>>, wk[f].path)]
  /\ wk' = Forget(f)
  /\ UNCHANGED <<main_pc, ret, ctx, dest_rel, owner, run, visited, fsvars, mem_uid,
                 diskvars, stdout, errlog, histvars, exported, walked, flushed,
                 fails, auxvars>>

\* process_file, the ? of lines 188, 189, 209, 211, 213, 215 and process_ent,
\* lines 135-137: the step fails, the error is printed, the file is given up
FileErr_RenameGoesOn(f) ==
  /\ main_pc = "walk"
  /\ f \in DOMAIN wk
  /\ wk[f].pc \in {"mkdir", "chown", "audit", "open", "rename", "insert"}
  /\ fails < MaxFail
  /\ fails' = fails + 1
  /\ errlog' = errlog \cup {[f |-> f, at |-> wk[f].pc]}
  /\ wk' = IF wk[f].pc = "rename" THEN [wk EXCEPT ![f].pc = "insert"]
           ELSE Forget(f)
  /\ UNCHANGED <<main_pc, ret, ctx, dest_rel, owner, run, visited, fsvars, memvars,
                 diskvars, stdout, histvars, exported, walked, flushed,
                 auxvars>>

FileErr(f) ==
  /\ main_pc = "walk"
  /\ f \in DOMAIN wk
  /\ wk[f].pc \in {"mkdir", "chown", "audit", "open", "rename", "insert"}
  /\ fails < MaxFail
  /\ fails' = fails + 1
  /\ errlog' = errlog \cup {[f |-> f, at |-> wk[f].pc]}
  /\ wk' = Forget(f)
  /\ UNCHANGED <<main_pc, ret, ctx, dest_rel, owner, run, visited, fsvars, memvars,
                 diskvars, stdout, histvars, exported, walked, flushed,
                 auxvars>>

\* ------------------------------------------- main: after the walk started

\* main, lines 289-291: walk_dir.run returns once every entry was handled
WalkDone ==
  /\ main_pc = "walk"
  /\ RootDir \in visited
  /\ Tree \ visited = {}
  /\ DOMAIN wk = {}
  /\ walked' = TRUE
  /\ main_pc' = IF ctx.dry_run THEN "flush" ELSE "export"
  /\ UNCHANGED <<ret, ctx, dest_rel, owner, run, wk, visited, fsvars, memvars, diskvars,
                 stdout, errlog, histvars, exported, flushed, fails, auxvars>>

\* main, lines 293-314: one turn of the loop over tree_names(), for a name of
\* four bytes: map.json is created, chowned and written
ExportOne(uid) ==
  /\ main_pc = "export"
  /\ uid \in (DOMAIN mem_paths) \ exported
  /\ uid \in DOMAIN bucket
  /\ mapjson' = Put(mapjson, uid, [owner |-> uid, content |-> mem_paths[uid]])
  /\ exported' = exported \cup {uid}
  /\ UNCHANGED <<main_pc, ret, ctx, dest_rel, owner, run, wk, visited, loc, bucket,
                 memvars, diskvars, stdout, errlog, histvars, walked, flushed,
                 fails, auxvars>>

\* main, line 311: File::create fails, there is no directory dest/<uid>;
\* the ? returns from main
ExportNoDir(uid) ==
  /\ main_pc = "export"
  /\ uid \in (DOMAIN mem_paths) \ exported
  /\ uid \notin DOMAIN bucket
  /\ main_pc' = "exit"
  /\ ret' = "err"
  /\ UNCHANGED <<ctx, dest_rel, owner, run, wk, visited, fsvars, memvars, diskvars,
                 stdout, errlog, histvars, exported, walked, flushed, fails,
                 auxvars>>

\* main, line 312: the file is created (empty) and chown fails; the ? returns
ExportChownErr(uid) ==
  /\ main_pc = "export"
  /\ uid \in (DOMAIN mem_paths) \ exported
  /\ uid \in DOMAIN bucket
  /\ fails < MaxFail
  /\ fails' = fails + 1
  /\ mapjson' = Put(mapjson, uid, [owner |-> RunnerUid, content |-> EmptyFn])
  /\ main_pc' = "exit"
  /\ ret' = "err"
  /\ UNCHANGED <<ctx, dest_rel, owner, run, wk, visited, loc, bucket, memvars, diskvars,
                 stdout, errlog, histvars, exported, walked, flushed, auxvars>>

\* main, lines 293-315: the loop is over
ExportDone ==
  /\ main_pc = "export"
  /\ (DOMAIN mem_paths) \ exported = {}
  /\ main_pc' = "flush"
  /\ UNCHANGED <<ret, ctx, dest_rel, owner, run, wk, visited, fsvars, memvars, diskvars,
                 stdout, errlog, histvars, exported, walked, flushed, fails,
                 auxvars>>

\* main, lines 316-317: ctx.paths_db.flush() and Ok(())
Flush ==
  /\ main_pc = "flush"
  /\ disk_uid' = mem_uid
  /\ disk_paths' = mem_paths
  /\ flushed' = TRUE
  /\ main_pc' = "exit"
  /\ ret' = "ok"
  /\ UNCHANGED <<ctx, dest_rel, owner, run, wk, visited, fsvars, memvars, stdout,
                 errlog, histvars, exported, walked, fails, auxvars>>

\* the process is gone: what the database had not written out is lost, and
\* so is everything else the process held
ProcessGone ==
  /\ main_pc' = "off"
  /\ ctx' = NoCtx
  /\ wk' = EmptyFn
  /\ visited' = {}
  /\ mem_uid' = disk_uid
  /\ mem_paths' = disk_paths
  /\ stdout' = <<>>
  /\ errlog' = {}
  /\ exported' = {}
  /\ walked' = FALSE
  /\ flushed' = FALSE
  /\ UNCHANGED <<dest_rel, owner, run, fsvars, diskvars, histvars, fails, auxvars>>

\* main returns (lines 311-317) or unwinds from the panic of line 177
Exit ==
  /\ main_pc = "exit"
  /\ ret' = ret
  /\ ProcessGone

\* the process is killed from outside, at any point of the run
Kill ==
  /\ main_pc \in {"walk", "export", "flush"}
  /\ ret' = "killed"
  /\ ProcessGone

\* main, lines 223-227: the database is opened with the default
\* flush_every_ms, so it writes out what it holds while the process runs
SledFlush ==
  /\ main_pc \in {"walk", "export", "flush"}
  /\ <<mem_uid, mem_paths>> # <<disk_uid, disk_paths>>
  /\ disk_uid' = mem_uid
  /\ disk_paths' = mem_paths
  /\ UNCHANGED <<main_pc, ret, ctx, dest_rel, owner, run, wk, visited, fsvars, memvars,
                 stdout, errlog, histvars, exported, walked, flushed, fails,
                 auxvars>>

Next ==
  \/ \E dry \in BOOLEAN, fl \in RunFlags, cut \in RunCutoffs :
       StartRun(dry, fl, cut)
  \/ SetupFail
  \/ NotFile
  \/ \E f \in Files : StatErr(f)
  \/ \E f \in Files : NotOld(f)
  \/ \E f \in Files : SeqAssign(f)
  \/ \E f \in Files : SeqPanic(f)
  \/ \E f \in Files : BucketCheck(f)
  \/ \E f \in Files : Mkdir(f)
  \/ \E f \in Files : Chown(f)
  \/ \E f \in Files : Audit(f)
  \/ \E f \in Files : OpenTree(f)
  \/ \E f \in Files : Rename(f)
  \/ \E f \in Files : Insert(f)
  \/ \E f \in Files : FileErr(f)
  \/ WalkDone
  \/ \E uid \in Uids : ExportOne(uid)
  \/ \E uid \in Uids : ExportNoDir(uid)
  \/ \E uid \in Uids : ExportChownErr(uid)
  \/ ExportDone
  \/ Flush
  \/ Exit
  \/ Kill
  \/ SledFlush

Spec == Init /\ [][Next]_vars

\* ---------------------------------------------- the age predicate alone

AgeInputs ==
  [noatime : BOOLEAN, nomtime : BOOLEAN, noctime : BOOLEAN,
   atime : Times, mtime : Times, ctime : Times, cutoff : Times]

\* no process of cleanup is running and none has run
MainRest ==
  /\ main_pc = "off"
  /\ ret = "none"
  /\ ctx = NoCtx
  /\ dest_rel = <<>>
  /\ owner = [f \in Files |-> 1]
  /\ run = 0
  /\ wk = EmptyFn
  /\ visited = {}
  /\ loc = [f \in Files |-> SrcPath(f)]
  /\ bucket = EmptyFn
  /\ mapjson = EmptyFn
  /\ mem_uid = EmptyFn
  /\ mem_paths = EmptyFn
  /\ disk_uid = EmptyFn
  /\ disk_paths = EmptyFn
  /\ stdout = <<>>
  /\ errlog = {}
  /\ seqlog = {}
  /\ renames = {}
  /\ exported = {}
  /\ walked = FALSE
  /\ flushed = FALSE
  /\ fails = 0

AgeInit ==
  /\ MainRest
  /\ age_in \in AgeInputs
  /\ age_out = "none"
  /\ CodecRest
  /\ OutRest

\* process_file, lines 150-163, on a file with the timestamps of age_in under
\* the flags and the cutoff of age_in: "skipped" is the return of line 162
AgeDecide ==
  /\ age_out = "none"
  /\ age_out' = IF Old([atime |-> age_in.atime, mtime |-> age_in.mtime,
                        ctime |-> age_in.ctime],
                       [noatime |-> age_in.noatime, nomtime |-> age_in.nomtime,
                        noctime |-> age_in.noctime, cutoff |-> age_in.cutoff])
                THEN "selected" ELSE "skipped"
  /\ UNCHANGED <<mainvars, age_in, codecvars, outvars>>

AgeNext == AgeDecide

SpecAge == AgeInit /\ [][AgeNext]_vars

\* ------------------------------------------------------ escape_path alone

\* the bytes a path is made of here: control bytes, the space, the single
\* quote, the tilde, DEL and a byte above the ASCII range
CodecBytes == {1, 31, 32, 39, 126, 127, 128}
CodecPaths == UNION {[1..n -> CodecBytes] : n \in 0..MaxPathLen}

\* escape_path, line 80: b >= &0x7f || b < &0x20
NeedsEscape_Above7f(b) == b > 127 \/ b < 32

NeedsEscape(b) == b >= 127 \/ b < 32

\* escape_path, line 85: write!(res, "\\{:03o}", b), a backslash and the
\* three octal digits of the byte
Octal(b) == <<92, 48 + (b \div 64), 48 + ((b \div 8) % 8), 48 + (b % 8)>>

\* escape_path, lines 79-93: the loop over the bytes, with its flag
RECURSIVE EscapeFrom(_, _)
EscapeFrom(input, encoding) ==
  IF input = <<>> THEN <<>>
  ELSE LET b == Head(input)
       IN IF NeedsEscape(b)
          THEN (IF ~encoding THEN <<39, 36, 39>> ELSE <<>>)
                 \o Octal(b) \o EscapeFrom(Tail(input), TRUE)
          ELSE (IF encoding THEN <<39, 39>> ELSE <<>>)
                 \o <<b>> \o EscapeFrom(Tail(input), FALSE)

\* escape_path, lines 74-96
escape_path(path) == <<39>> \o EscapeFrom(path, FALSE) \o <<39>>

CodecInit ==
  /\ MainRest
  /\ AgeRest
  /\ OutRest
  /\ esc_in \in CodecPaths
  /\ esc_out = <<>>

\* process_file, lines 193 and 215: escape_path is applied to the path
Escape ==
  /\ esc_out = <<>>
  /\ esc_out' = escape_path(esc_in)
  /\ UNCHANGED <<mainvars, agevars, esc_in, outvars>>

CodecNext == Escape

SpecCodec == CodecInit /\ [][CodecNext]_vars

\* ------------------------------------------- the writes to standard output

\* the pieces of a line are <<thread, line, piece>>
OutInit ==
  /\ MainRest
  /\ AgeRest
  /\ CodecRest
  /\ OutRest

\* main, line 286: println! of the header, before walk_dir.run (line 289)
OutHeader ==
  /\ term = <<>>
  /\ term' = <<Header>>
  /\ UNCHANGED <<mainvars, agevars, codecvars, lock_holder, wr>>

\* process_file, line 202: stdout.lock() waits until the lock is free
OutLock_NoWait(w) ==
  /\ term # <<>>
  /\ lock_holder # w
  /\ wr[w].line < MaxLines
  /\ lock_holder' = w
  /\ UNCHANGED <<mainvars, agevars, codecvars, term, wr>>

OutLock(w) ==
  /\ term # <<>>
  /\ lock_holder = 0
  /\ wr[w].line < MaxLines
  /\ lock_holder' = w
  /\ UNCHANGED <<mainvars, agevars, codecvars, term, wr>>

\* process_file, lines 201-209: writeln! hands the line to the locked handle
\* one piece of the format at a time
OutWrite(w) ==
  /\ lock_holder = w
  /\ wr[w].piece < NumPieces
  /\ term' = Append(term, <<w, wr[w].line + 1, wr[w].piece + 1>>)
  /\ wr' = [wr EXCEPT ![w].piece = @ + 1]
  /\ UNCHANGED <<mainvars, agevars, codecvars, lock_holder>>

\* process_file, line 209: the statement ends, the guard is dropped
OutUnlock(w) ==
  /\ lock_holder = w
  /\ wr[w].piece = NumPieces
  /\ lock_holder' = 0
  /\ wr' = [wr EXCEPT ![w] = [line |-> @.line + 1, piece |-> 0]]
  /\ UNCHANGED <<mainvars, agevars, codecvars, term>>

OutNext ==
  \/ OutHeader
  \/ \E w \in Workers : OutLock(w)
  \/ \E w \in Workers : OutWrite(w)
  \/ \E w \in Workers : OutUnlock(w)

SpecOut == OutInit /\ [][OutNext]_vars

TypeOK ==
  /\ main_pc \in {"off", "walk", "export", "flush", "exit"}
  /\ ret \in {"none", "ok", "err", "panic", "killed"}
  /\ run \in 0..MaxRuns
  /\ fails \in 0..MaxFail
  /\ visited \subseteq Files \cup {RootDir}
  /\ DOMAIN wk \subseteq visited
  /\ Cardinality(DOMAIN wk) <= NumWorkers
  /\ DOMAIN bucket \subseteq Uids
  /\ DOMAIN mem_uid \subseteq Uids
  /\ DOMAIN mem_paths \subseteq Uids

\* ---------------------------------------------------------------- claims

AuditLines == {stdout[i] : i \in 2..Len(stdout)}
MovedNow(f) == \E r \in renames : r.f = f /\ r.run = run
Quiet == main_pc \in {"off", "exit"}

\* C1: Sequence uniqueness.
\*   Over every interleaving of the workers and every succession of runs on
\*   the same ledger, the sequence step never returns the same n twice for
\*   the same owner id.
C1_SequenceUnique ==
  \A a \in seqlog, b \in seqlog : (a.uid = b.uid /\ a.n = b.n) => a = b

\* C2: Idempotent resumption.
\*   A rename never targets a destination path that a successful rename of
\*   this run or of an earlier run (completed, failed or killed) already
\*   targeted, so no relocated file is overwritten.
C2_NoTargetTwice ==
  /\ \A a \in renames, b \in renames : a.to = b.to => a = b
  /\ \A f \in Files : loc[f] # Lost

\* C3: Zero-based contiguous sequence.
\*   For every owner id the integers assigned over the runs are pairwise
\*   distinct and are exactly 0..k-1, and between runs the relocated files of
\*   the owner occupy the indices 0..k-1 of its bucket with no gap.
C3_ZeroBasedContiguous ==
  \A u \in Uids :
    LET given == {a \in seqlog : a.uid = u}
        there == {f \in Files : IsDest(loc[f]) /\ loc[f][1] = u}
    IN /\ {a.n : a \in given} = 0..(Cardinality(given) - 1)
       /\ Quiet => {loc[f][2] : f \in there} = 0..(Cardinality(there) - 1)

\* C4: Age predicate.
\*   For all flags, timestamps and cutoff, the file is selected if and only
\*   if every enabled timestamp is strictly below the cutoff; a disabled
\*   field has no influence, and with the three disabled it is selected.
EnabledFields ==
  {fld \in {"atime", "mtime", "ctime"} : ~age_in["no" \o fld]}
C4_AgePredicate ==
  age_out # "none" =>
    (age_out = "selected" <=>
       \A fld \in EnabledFields : age_in[fld] < age_in.cutoff)
\* a file whose only enabled timestamp equals the cutoff was decided
C4_Witness ==
  /\ age_out = "skipped"
  /\ EnabledFields = {"mtime"}
  /\ age_in.mtime = age_in.cutoff
  /\ age_in.atime > age_in.cutoff

\* C5: Dry-run non-mutation.
\*   In a dry run no step renames a file, creates a directory dest/<uid> or
\*   writes a map.json, and once the walk is over standard output holds
\*   exactly one audit line for every file that passed the age predicate
\*   (unless its metadata could not be read or the write of its line itself
\*   failed), and none for any other file.
C5_DryRunNoMutation ==
  /\ [][(ctx.dry_run /\ main_pc # "off") => UNCHANGED fsvars]_vars
  /\ [](ctx.dry_run /\ walked =>
          \A f \in Files :
            Count(stdout, loc[f]) =
              IF f \in Tree
                 /\ [f |-> f, at |-> "stat"] \notin errlog
                 /\ [f |-> f, at |-> "audit"] \notin errlog
                 /\ (~ctx.noatime => FileMeta(f).atime < ctx.cutoff)
                 /\ (~ctx.nomtime => FileMeta(f).mtime < ctx.cutoff)
                 /\ (~ctx.noctime => FileMeta(f).ctime < ctx.cutoff)
              THEN 1 ELSE 0)
\* a dry run finished its walk having printed the line of a file whose owner
\* has no bucket
C5_Witness ==
  /\ ctx.dry_run
  /\ walked
  /\ Len(stdout) > 1
  /\ \E f \in Files : IsSrc(loc[f]) /\ owner[f] \notin DOMAIN bucket
                      /\ Count(stdout, loc[f]) = 1

\* C6: Per-file failure isolation.
\*   An error of a per-file step is printed and only that file is given up:
\*   no such error ends the process, which leaves only after its walk.
C6_FailureIsolated ==
  /\ ret # "panic"
  /\ main_pc = "exit" => walked

\* C7: Step order and audit correspondence.
\*   In a real run an audit line is on standard output only for a file whose
\*   rename has already succeeded, and after the walk the audit lines are
\*   exactly the files this run relocated.
C7_AuditAfterMove ==
  (main_pc # "off" /\ ~ctx.dry_run) =>
    /\ \A p \in AuditLines : \E r \in renames : r.run = run /\ r.from = p
    /\ walked => AuditLines = {r.from : r \in {x \in renames : x.run = run}}

\* C8: Export completeness.
\*   When a real run whose walk completed leaves main, every owner id with a
\*   provenance tree has a map.json holding exactly the entries of its tree.
C8_ExportComplete ==
  (main_pc = "exit" /\ walked /\ ~ctx.dry_run /\ ret \in {"ok", "err"}) =>
    \A u \in DOMAIN mem_paths :
      u \in DOMAIN mapjson /\ mapjson[u].content = mem_paths[u]

\* C9: Final flush.
\*   Every run that finished its walk has flushed the ledger when it leaves
\*   main, dry or not.
C9_FinalFlush ==
  (main_pc = "exit" /\ walked /\ ret \in {"ok", "err"}) => flushed

\* C10: Self-protection of the destination.
\*   When the destination is inside the source, whatever its name, no entry
\*   under the destination is yielded, given a number, printed or moved.
C10_DestNotWalked ==
  nested =>
    /\ \A f \in visited \cap Files : IsSrc(loc[f]) \/ MovedNow(f)
    /\ \A f \in DOMAIN wk : IsSrc(wk[f].path)
    /\ \A r \in renames : IsSrc(r.from)
    /\ \A p \in AuditLines : IsSrc(p)

\* POSIX shell quoting: the bytes a word made of '...' and $'...' segments
\* stands for.  Between single quotes every character is itself up to the
\* next single quote; in $'...' a backslash with three octal digits is the
\* byte of that value and a backslash with another character is that
\* character; outside quotes a backslash quotes the next character and a
\* space ends the word.  ShellFail: the text is not one complete word.
ShellFail == <<-1>>
IsOctal(c) == c \in 48..55
RECURSIVE Unquote(_, _, _)
Unquote(s, mode, acc) ==
  IF s = <<>> THEN (IF mode = "bare" THEN acc ELSE ShellFail)
  ELSE LET c == Head(s)
       IN CASE mode = "bare" ->
                 IF c = 39 THEN Unquote(Tail(s), "single", acc)
                 ELSE IF c = 36 /\ Len(s) >= 2 /\ s[2] = 39
                   THEN Unquote(Tail(Tail(s)), "dollar", acc)
                 ELSE IF c = 92
                   THEN (IF Len(s) >= 2
                         THEN Unquote(Tail(Tail(s)), "bare", Append(acc, s[2]))
                         ELSE ShellFail)
                 ELSE IF c = 32 THEN ShellFail
                 ELSE Unquote(Tail(s), "bare", Append(acc, c))
            [] mode = "single" ->
                 IF c = 39 THEN Unquote(Tail(s), "bare", acc)
                 ELSE Unquote(Tail(s), "single", Append(acc, c))
            [] mode = "dollar" ->
                 IF c = 39 THEN Unquote(Tail(s), "bare", acc)
                 ELSE IF c = 92
                   THEN (IF Len(s) >= 4 /\ IsOctal(s[2]) /\ IsOctal(s[3])
                            /\ IsOctal(s[4])
                         THEN Unquote(SubSeq(s, 5, Len(s)), "dollar",
                                Append(acc, 64 * (s[2] - 48) + 8 * (s[3] - 48)
                                            + (s[4] - 48)))
                         ELSE IF Len(s) >= 2
                           THEN Unquote(Tail(Tail(s)), "dollar",
                                        Append(acc, s[2]))
                         ELSE ShellFail)
                 ELSE Unquote(Tail(s), "dollar", Append(acc, c))

\* C11: Path Codec reversibility.
\*   For every byte sequence, single quotes, control bytes and bytes outside
\*   ASCII included, the text escape_path returns, read as a POSIX shell
\*   word, is exactly the original bytes (so that no two paths share an
\*   encoding).
C11_RoundTrip ==
  esc_out # <<>> => Unquote(esc_out, "bare", <<>>) = esc_in

\* C12: Path Codec byte classes.
\*   The output starts and ends with a single quote; a byte below 0x20 or
\*   from 0x7f on is a backslash and exactly three octal digits of its value,
\*   with '$' in front of the first byte of each run of such bytes and ''
\*   before a printable byte that follows a run; a byte of 0x20..0x7e is
\*   itself.
Printable(b) == b \in 32..126
OctalOf(b) ==
  CHOOSE d \in [1..3 -> 0..7] : 64 * d[1] + 8 * d[2] + d[3] = b
RECURSIVE Segments(_, _)
Segments(p, i) ==
  IF i > Len(p) THEN <<>>
  ELSE (IF Printable(p[i])
        THEN (IF i > 1 /\ ~Printable(p[i - 1]) THEN <<39, 39>> ELSE <<>>)
               \o <<p[i]>>
        ELSE (IF i = 1 \/ Printable(p[i - 1]) THEN <<39, 36, 39>> ELSE <<>>)
               \o <<92, 48 + OctalOf(p[i])[1], 48 + OctalOf(p[i])[2],
                    48 + OctalOf(p[i])[3]>>)
       \o Segments(p, i + 1)
C12_ByteClasses ==
  esc_out # <<>> =>
    /\ Head(esc_out) = 39
    /\ esc_out[Len(esc_out)] = 39
    /\ esc_out = <<39>> \o Segments(esc_in, 1) \o <<39>>
\* the third path of test_escape_path, [1, 31, 32, 0x7f, 0x7e], and the text
\* the test expects for it
C12_Witness ==
  /\ esc_in = <<1, 31, 32, 127, 126>>
  /\ esc_out = <<39, 39, 36, 39, 92, 48, 48, 49, 92, 48, 51, 55, 39, 39, 32,
                 39, 36, 39, 92, 49, 55, 55, 39, 39, 126, 39>>

\* C16: Audit line atomicity.
\*   With several workers printing at once, the pieces of an audit line
\*   reach standard output one after the other with nothing of another line
\*   or of the header between them, a line starts only after the header or
\*   after the last piece of another line, and the header is the first thing
\*   printed.
IsPiece(x) == Len(x) = 3
C16_AuditLineAtomic ==
  /\ term # <<>> => term[1] = Header
  /\ \A p \in 2..Len(term) :
       /\ IsPiece(term[p])
       /\ IF term[p][3] > 1
          THEN term[p - 1] = <<term[p][1], term[p][2], term[p][3] - 1>>
          ELSE \/ term[p - 1] = Header
               \/ IsPiece(term[p - 1]) /\ term[p - 1][3] = NumPieces
\* a worker is in the middle of its line while another one, which has already
\* printed a line, has one more to print
C16_Witness ==
  \E w \in Workers, v \in Workers :
    /\ w # v
    /\ lock_holder = w
    /\ wr[w].piece \in 1..(NumPieces - 1)
    /\ wr[v].line \in 1..(MaxLines - 1)

\* C13: Failed move leaves no trace.
\*   In a real run, a file whose rename failed has not been moved (it is
\*   where it was), the tree of its owner holds no entry under the
\*   destination it was given, it was given one number only and is not in a
\*   worker's hands again, and the walk goes on: the process does not leave
\*   before the walk is over because of it.
C13_FailedMoveNoTrace ==
  \A e \in errlog : e.at = "rename" =>
    LET given == {a \in seqlog : a.f = e.f /\ a.run = run}
    IN /\ ~ctx.dry_run
       /\ ~MovedNow(e.f)
       /\ (\A r \in renames : r.f # e.f) => loc[e.f] = SrcPath(e.f)
       /\ \A a \in given :
            a.uid \in DOMAIN mem_paths =>
              <<a.uid, a.n>> \notin DOMAIN mem_paths[a.uid]
       /\ Cardinality(given) = 1
       /\ e.f \in visited /\ e.f \notin DOMAIN wk
       /\ (main_pc = "exit" /\ ret # "panic") => walked
\* the rename of a file failed and the run went on to move another file
C13_Witness ==
  \E e \in errlog :
    /\ e.at = "rename"
    /\ loc[e.f] = SrcPath(e.f)
    /\ \E g \in Files \ {e.f} : MovedNow(g)

\* C14: Bucket ownership invariant.
\*   Whenever a rename moves a file into dest/<uid>, that directory has mode
\*   0700 and is owned by <uid>; a bucket whose chown failed is not used by
\*   later files while it is wrongly owned.
C14_BucketOwned ==
  [][\A f \in Files :
       (At(f, "rename") /\ f \in DOMAIN wk' /\ wk'[f].pc = "insert"
          /\ loc'[f] = <<owner[f], wk[f].n>>) =>
         /\ owner[f] \in DOMAIN bucket
         /\ bucket[owner[f]] = [mode |-> Mode700, owner |-> owner[f]]]_vars

\* C15: Provenance immutability.
\*   An entry of a provenance tree stays in the ledger with its value: no
\*   step of this run or of a later one removes it or changes its value.
C15_ProvenanceImmutable ==
  [][\A u \in DOMAIN mem_paths : \A k \in DOMAIN mem_paths[u] :
       /\ u \in DOMAIN mem_paths'
       /\ k \in DOMAIN mem_paths'[u]
       /\ mem_paths'[u][k] = mem_paths[u][k]]_vars

\* C17: Owner independence.
\*   A step of process_file on a file of owner u leaves the counter, the
\*   provenance tree, the bucket and the relocated files of every other
\*   owner as they were.
Touched(f) ==
  \/ f \in visited' /\ f \notin visited
  \/ f \in DOMAIN wk /\ (f \notin DOMAIN wk' \/ wk'[f] # wk[f])
SameIn(t1, t2, v) ==
  /\ (v \in DOMAIN t1) = (v \in DOMAIN t2)
  /\ v \in DOMAIN t1 => t1[v] = t2[v]
OwnerUntouched(v) ==
  /\ SameIn(mem_uid, mem_uid', v)
  /\ SameIn(mem_paths, mem_paths', v)
  /\ SameIn(bucket, bucket', v)
  /\ SameIn(mapjson, mapjson', v)
  /\ \A g \in Files : (loc[g][1] = v \/ loc'[g][1] = v) => loc'[g] = loc[g]
C17_OwnerIndependence ==
  [][(main_pc = "walk" /\ main_pc' = "walk") =>
       \A f \in Files :
         Touched(f) => \A v \in Uids \ {owner[f]} : OwnerUntouched(v)]_vars
\* files of two owners are in the hands of the workers at once, and both
\* owners already have a counter and a bucket
C17_Witness ==
  /\ main_pc = "walk"
  /\ \E f \in DOMAIN wk, g \in DOMAIN wk :
       /\ owner[f] # owner[g]
       /\ {owner[f], owner[g]} \subseteq DOMAIN mem_uid
       /\ {owner[f], owner[g]} \subseteq DOMAIN bucket

\* C18: Fatal setup errors precede all work.
\*   When main returns an error from the setup, no number has been assigned,
\*   no file moved, no directory or map.json written, the ledger is as it
\*   was and nothing, not even the header, is on standard output.
C18_SetupErrorBeforeWork ==
  [][(main_pc = "off" /\ main_pc' = "off" /\ run' # run) =>
       /\ ret' = "err"
       /\ stdout' = <<>>
       /\ UNCHANGED <<histvars, fsvars, memvars, diskvars, visited, wk>>]_vars
\* the first process failed in its setup
C18_Witness ==
  /\ main_pc = "off"
  /\ run = 1
  /\ ret = "err"
  /\ fails = 1
  /\ seqlog = {}

\* C19: Non-candidates have no effect.
\*   An entry the walker yields that is not a regular file, whose metadata
\*   cannot be read or that fails the age predicate is given no number, no
\*   bucket, no audit line and no provenance entry and is not moved: the
\*   ledger, the file system and standard output are as before.
C19_NonCandidateNoEffect ==
  [][\A e \in visited' \ visited :
       (\/ e = RootDir
        \/ [f |-> e, at |-> "stat"] \in errlog' \ errlog
        \/ ~Old(FileMeta(e), ctx)) =>
         /\ e \notin DOMAIN wk'
         /\ UNCHANGED <<memvars, diskvars, fsvars, stdout, histvars>>]_vars
\* in one walk the root directory was skipped, the metadata of a file could
\* not be read and another file was not old
C19_Witness ==
  /\ main_pc = "walk"
  /\ RootDir \in visited
  /\ \E f \in visited \cap Files, g \in visited \cap Files :
       /\ [f |-> f, at |-> "stat"] \in errlog
       /\ g # f
       /\ ~Old(FileMeta(g), ctx)
       /\ g \notin DOMAIN wk
  /\ seqlog = {}

\* C20: Provenance matches the filesystem.
\*   Every entry of a map.json has as key the destination of a rename this
\*   tool performed and as value the path that rename moved the file from.
C20_ProvenanceIsMoves ==
  \A u \in DOMAIN mapjson : \A k \in DOMAIN mapjson[u].content :
    \E r \in renames : r.to = k /\ r.from = mapjson[u].content[k]

====
